---------------------------- MODULE Spec2Model ----------------------------
(***************************************************************************)
(* Model of kharge.py, a Streamlit expense ledger.                         *)
(*                                                                         *)
(* The program is one script that Streamlit re-runs from top to bottom on  *)
(* every interaction.  One script run is one action of the model; the      *)
(* state that survives between runs is st.session_state.df, the file       *)
(* expenses.csv and the content of the file-uploader widget.               *)
(*                                                                         *)
(* Encoding of values                                                      *)
(*   text cell      a sequence of one-character strings; <<>> is ''        *)
(*   date text      <<y, m, d>> is the text 'YYYY-MM-DD'; <<>> is ''       *)
(*   ISO date       <<y, m, d>>; comparing ISO strings of four-digit years *)
(*                  is comparing these triples lexicographically           *)
(*   NaN / NaD      the pandas missing value of a text / date column       *)
(*   amount cell    [k, n]: a number n, a non-numeric text, or missing     *)
(*   id             a positive number (a uuid4); 0 is the missing value    *)
(*                                                                         *)
(* Assumptions: jdatetime is installed (ensure_jdatetime never stops the   *)
(* run); amounts are whole numbers; filter texts hold no regex             *)
(* metacharacters; date_gregorian is present in every row of a file.       *)
(***************************************************************************)
EXTENDS Integers, Sequences, FiniteSets, TLC

\* ------------------------------------------------------------- bounds
\* Number of uuid4 values (records created by add or import) in a behaviour.
MaxId == 2

\* Number of writes of expenses.csv that fail in a behaviour.
MaxIoFailures == 1

\* ------------------------------------------------------------- values
NaN == <<"NaN">>
NaD == <<0>>
NoId == 0

Columns == {"id", "date_jalali", "date_gregorian", "amount", "description", "card"}

\* The label '— مشخص نشده —' that replaces '' in the per-card grouping.
Sentinel == <<"-", "-">>

Num(n) == [k |-> "num", n |-> n]
NonNumeric == [k |-> "text", n |-> 0]
Missing == [k |-> "nan", n |-> 0]

\* ------------------------------------------------------- text helpers
Lower(c) == IF c = "A" THEN "a" ELSE IF c = "B" THEN "b" ELSE c

LowerStr(s) == [i \in 1..Len(s) |-> Lower(s[i])]

\* str.strip(): drop leading and trailing blanks
RECURSIVE LStrip(_)
LStrip(s) == IF s # <<>> /\ Head(s) = " " THEN LStrip(Tail(s)) ELSE s

RECURSIVE RStrip(_)
RStrip(s) ==
    IF s # <<>> /\ s[Len(s)] = " " THEN RStrip(SubSeq(s, 1, Len(s) - 1)) ELSE s

Strip(s) == RStrip(LStrip(s))

\* Series.fillna("")
FillNa(s) == IF s = NaN THEN <<>> ELSE s

\* str.contains(needle, case=False) for a needle without regex metacharacters
ContainsCI(hay, needle) ==
    LET h == LowerStr(hay)
        n == LowerStr(needle)
    IN  \E i \in 0..(Len(h) - Len(n)) : SubSeq(h, i + 1, i + Len(n)) = n

\* str(x) of a text cell read by pandas: the missing value prints as 'nan'
StrOf(s) == IF s = NaN THEN <<"n", "a", "n">> ELSE s

\* ------------------------------------------------- Calendar Converter
\* jdatetime: year % 33 in (1, 5, 9, 13, 17, 22, 26, 30)
JIsLeap(y) == (y % 33) \in {1, 5, 9, 13, 17, 22, 26, 30}

JDaysInMonth(y, m) ==
    IF m <= 6 THEN 31
    ELSE IF m <= 11 THEN 30
    ELSE IF JIsLeap(y) THEN 30 ELSE 29

\* jdatetime.date.fromisoformat accepts the text
ValidJalali(s) ==
    /\ Len(s) = 3
    /\ s[1] \in 1..9377
    /\ s[2] \in 1..12
    /\ s[3] \in 1..JDaysInMonth(s[1], s[2])

RECURSIVE JDaysBefore(_)
JDaysBefore(m) == IF m <= 1 THEN 0 ELSE JDaysBefore(m - 1) + (IF m - 1 <= 6 THEN 31 ELSE 30)

GDaysInMonth(i, leap) ==
    IF i = 2 THEN (IF leap THEN 29 ELSE 28)
    ELSE IF i \in {4, 6, 9, 11} THEN 30 ELSE 31

RECURSIVE GMonthDay(_, _, _, _)
GMonthDay(gy, i, dayNo, leap) ==
    IF dayNo >= GDaysInMonth(i, leap)
    THEN GMonthDay(gy, i + 1, dayNo - GDaysInMonth(i, leap), leap)
    ELSE <<gy, i, dayNo + 1>>

\* jdate.togregorian(): the day-number arithmetic of jdatetime.  JDayNo is
\* the number of days since 0979-01-01 Jalali, GYear1 .. GYear400 peel off
\* the years in cycles of 400, 100, 4 and 1 Gregorian years.
JDayNo(s) ==
    365 * (s[1] - 979) + ((s[1] - 979) \div 33) * 8
        + (((s[1] - 979) % 33) + 3) \div 4 + JDaysBefore(s[2]) + (s[3] - 1)

GYear1(gy, g, leap) ==
    IF g >= 366
    THEN GMonthDay(gy + ((g - 1) \div 365), 1, (g - 1) % 365, FALSE)
    ELSE GMonthDay(gy, 1, g, leap)

GYear4(gy, g, leap) == GYear1(gy + 4 * (g \div 1461), g % 1461, leap)

GCentury(gy, g) == IF g >= 365 THEN GYear4(gy, g + 1, TRUE) ELSE GYear4(gy, g, FALSE)

GYear100(gy, g) ==
    IF g >= 36525
    THEN GCentury(gy + 100 * ((g - 1) \div 36524), (g - 1) % 36524)
    ELSE GYear4(gy, g, TRUE)

GYear400(g) == GYear100(1600 + 400 * (g \div 146097), g % 146097)

ToGregorian(s) == GYear400(JDayNo(s) + 79)

\* jalali_to_gregorian raises ValueError
ConvertFails(s) == ~ValidJalali(s)

jalali_to_gregorian(s) == ToGregorian(s)

\* ------------------------------------------------------- Ledger Store
EmptyTable == [columns |-> Columns, rows |-> <<>>]

NoFile == [state |-> "absent", columns |-> {}, rows |-> <<>>]

\* A file of zero bytes: pd.read_csv raises EmptyDataError on it.
ZeroByteFile == [state |-> "empty", columns |-> {}, rows |-> <<>>]

\* One row of df as DataFrame.to_csv writes it: missing values and '' both
\* become an empty field.
CsvRow(r) ==
    [id |-> r.id,
     date_jalali |-> IF r.date_jalali = NaD THEN <<>> ELSE r.date_jalali,
     date_gregorian |-> IF r.date_gregorian = NaD THEN <<>> ELSE r.date_gregorian,
     amount |-> Num(r.amount),
     description |-> FillNa(r.description),
     card |-> FillNa(r.card)]

ToCsv(t) ==
    [state |-> "ok",
     columns |-> t.columns,
     rows |-> [i \in 1..Len(t.rows) |-> CsvRow(t.rows[i])]]

\* pd.to_numeric(errors="coerce").fillna(0) of one cell
ToNumericFillna(cell) == IF cell.k = "num" THEN cell.n ELSE 0

\* One row of pd.read_csv(DATA_FILE) restricted to the expected columns: an
\* empty field is the missing value, an absent column is None.
LoadRow(f, r) ==
    [id |-> IF "id" \in f.columns THEN r.id ELSE NoId,
     date_jalali |->
        IF "date_jalali" \in f.columns /\ r.date_jalali # <<>>
        THEN r.date_jalali ELSE NaD,
     date_gregorian |->
        IF "date_gregorian" \in f.columns /\ r.date_gregorian # <<>>
        THEN r.date_gregorian ELSE NaD,
     amount |-> IF "amount" \in f.columns THEN ToNumericFillna(r.amount) ELSE 0,
     description |->
        IF "description" \in f.columns /\ r.description # <<>>
        THEN r.description ELSE NaN,
     card |-> IF "card" \in f.columns /\ r.card # <<>> THEN r.card ELSE NaN]

\* read_data raises (pd.read_csv on a file without a header line)
ReadFails(f) == f.state = "empty"

read_data(f) ==
    IF f.state = "ok"
    THEN [columns |-> Columns,
          rows |-> [i \in 1..Len(f.rows) |-> LoadRow(f, f.rows[i])]]
    ELSE EmptyTable

\* Outcomes of df.to_csv(DATA_FILE, ...): pandas opens the file itself for
\* writing, which truncates it, and then writes the table; there is no
\* temporary file and no rename.
\*   "ok"      the whole table is written
\*   "denied"  open() raises (permission denied); the file is untouched
\*   "cut"     a write raises after open() has truncated the file (disk
\*             full).  What is left is shorter than the table; the model
\*             takes the shortest remnant, the file of zero bytes.
IoOutcomes == {"ok", "denied", "cut"}

\* The files write_data(t) can leave behind when the file was f.
write_data(f, t, io) ==
    IF io = "ok" THEN {ToCsv(t)}
    ELSE IF io = "denied" THEN {f}
    ELSE {ZeroByteFile}

\* ----------------------------------------------------- Record Builder
NoForm == [date_jalali |-> <<>>, amount |-> 0, description |-> <<>>, card |-> <<>>]

\* The add form without its `amount <= 0` check.
AddOutcomesNoAmountCheck(session, f, form, id) ==
    IF form.date_jalali = <<>>
    THEN {[sdf |-> session, file |-> f, msg |-> "warn_date", stopped |-> TRUE, made |-> 0,
           failed |-> 0]}
    ELSE IF ConvertFails(form.date_jalali)
    THEN {[sdf |-> session, file |-> f, msg |-> "error_date", stopped |-> FALSE, made |-> 0,
           failed |-> 0]}
    ELSE
        LET new_row == [id |-> id,
                        date_jalali |-> form.date_jalali,
                        date_gregorian |-> jalali_to_gregorian(form.date_jalali),
                        amount |-> form.amount,
                        description |-> Strip(form.description),
                        card |-> Strip(form.card)]
            grown == [columns |-> session.columns \cup Columns,
                      rows |-> Append(session.rows, new_row)]
        IN  {[sdf |-> grown, file |-> ToCsv(grown), msg |-> "success",
              stopped |-> FALSE, made |-> 1, failed |-> 0]}

\* Lines 113-135: the add form, submitted.  `session` is st.session_state.df,
\* `f` the file, `id` the uuid4 drawn.
\* st.stop() raises StopException, which is no Exception: it ends the run.
AddOutcomes(session, f, form, id) ==
    IF form.date_jalali = <<>>
    THEN {[sdf |-> session, file |-> f, msg |-> "warn_date", stopped |-> TRUE, made |-> 0,
           failed |-> 0]}
    ELSE IF form.amount <= 0
    THEN {[sdf |-> session, file |-> f, msg |-> "warn_amount", stopped |-> TRUE, made |-> 0,
           failed |-> 0]}
    ELSE IF ConvertFails(form.date_jalali)
    THEN {[sdf |-> session, file |-> f, msg |-> "error_date", stopped |-> FALSE, made |-> 0,
           failed |-> 0]}
    ELSE
        LET new_row == [id |-> id,
                        date_jalali |-> form.date_jalali,
                        date_gregorian |-> jalali_to_gregorian(form.date_jalali),
                        amount |-> form.amount,
                        description |-> Strip(form.description),
                        card |-> Strip(form.card)]
            grown == [columns |-> session.columns \cup Columns,
                      rows |-> Append(session.rows, new_row)]
        IN  UNION {{[sdf |-> grown, file |-> g,
                     msg |-> IF io = "ok" THEN "success" ELSE "error_io",
                     stopped |-> FALSE, made |-> 1,
                     failed |-> IF io = "ok" THEN 0 ELSE 1] : g \in write_data(f, grown, io)}
                   : io \in IoOutcomes}

\* One record of the import loop, lines 241-251.
ImportRecord(r, id) ==
    [id |-> id,
     date_jalali |-> r.date_jalali,
     date_gregorian |-> jalali_to_gregorian(r.date_jalali),
     amount |-> r.amount.n,
     description |-> StrOf(r.description),
     card |-> StrOf(r.card)]

\* int(pd.to_numeric(x, errors="coerce") or 0) raises: a value that does not
\* parse becomes the float nan, nan is truthy, so `nan or 0` is nan, and
\* int(nan) raises ValueError.
AmountRaises(cell) == cell.k # "num"

\* The row raises inside the loop
RowRaises(r) == ConvertFails(r.date_jalali) \/ AmountRaises(r.amount)

\* Lines 236-237: an absent optional column is filled with ''
ImportRow(batch, r) ==
    [r EXCEPT !.description = IF "description" \in batch.columns THEN @ ELSE <<>>,
              !.card = IF "card" \in batch.columns THEN @ ELSE <<>>]

\* The number of rows before the first row that raises
RECURSIVE LeadingGood(_, _)
LeadingGood(batch, i) ==
    IF i > Len(batch.rows) \/ RowRaises(ImportRow(batch, batch.rows[i])) THEN i - 1
    ELSE LeadingGood(batch, i + 1)

\* An import that keeps the rows read before the row that raises.
ImportOutcomesPartial(df, session, f, batch, first) ==
    IF ~({"date_jalali", "amount"} \subseteq batch.columns)
    THEN {[sdf |-> session, file |-> f, msg |-> "error_column", made |-> 0, failed |-> 0]}
    ELSE
        LET n == LeadingGood(batch, 1)
            records == [i \in 1..n |->
                            ImportRecord(ImportRow(batch, batch.rows[i]), first + i - 1)]
            merged == [columns |-> df.columns, rows |-> df.rows \o records]
        IN  {[sdf |-> merged, file |-> ToCsv(merged),
              msg |-> IF n = Len(batch.rows) THEN "success" ELSE "error_row",
              made |-> n, failed |-> 0]}

\* Lines 228-257: the uploaded file is present.  `df` is the table bound at
\* line 93, `session` is st.session_state.df, `first` the first uuid4 drawn.
ImportOutcomes(df, session, f, batch, first) ==
    IF ~({"date_jalali", "amount"} \subseteq batch.columns)
    THEN {[sdf |-> session, file |-> f, msg |-> "error_column", made |-> 0, failed |-> 0]}
    ELSE IF \E i \in 1..Len(batch.rows) : RowRaises(ImportRow(batch, batch.rows[i]))
    THEN {[sdf |-> session, file |-> f, msg |-> "error_row", made |-> 0, failed |-> 0]}
    ELSE
        LET records == [i \in 1..Len(batch.rows) |->
                            ImportRecord(ImportRow(batch, batch.rows[i]), first + i - 1)]
            merged == [columns |-> IF records = <<>> THEN df.columns
                                   ELSE df.columns \cup Columns,
                       rows |-> df.rows \o records]
        IN  UNION {{[sdf |-> merged, file |-> g,
                     msg |-> IF io = "ok" THEN "success" ELSE "error_io",
                     made |-> Len(batch.rows),
                     failed |-> IF io = "ok" THEN 0 ELSE 1] : g \in write_data(f, merged, io)}
                   : io \in IoOutcomes}

\* A reset that clears the session table and leaves the file alone.
ResetOutcomesNoSave(df, f) ==
    {[sdf |-> [columns |-> df.columns, rows |-> <<>>], file |-> f,
      msg |-> "success", failed |-> 0]}

\* Lines 259-262: the reset button is clicked.  An exception of write_data
\* is not caught here.
ResetOutcomes(df, f) ==
    LET cleared == [columns |-> df.columns, rows |-> <<>>]
    IN  UNION {{[sdf |-> cleared, file |-> g,
                 msg |-> IF io = "ok" THEN "success" ELSE "exception",
                 failed |-> IF io = "ok" THEN 0 ELSE 1] :
                    g \in write_data(f, cleared, io)}
               : io \in IoOutcomes}

\* ------------------------------------------------------- Query Engine
NoFilter == [start_j |-> <<>>, end_j |-> <<>>, card_filter |-> <<>>, search |-> <<>>]

\* a <= b for ISO date strings
IsoLeq(a, b) ==
    \/ a[1] < b[1]
    \/ a[1] = b[1] /\ a[2] < b[2]
    \/ a[1] = b[1] /\ a[2] = b[2] /\ a[3] <= b[3]

\* filtered["date_gregorian"] >= bound; a missing value compares False
NotBefore(rows, bound) ==
    SelectSeq(rows, LAMBDA r : r.date_gregorian # NaD /\ IsoLeq(bound, r.date_gregorian))

NotAfter(rows, bound) ==
    SelectSeq(rows, LAMBDA r : r.date_gregorian # NaD /\ IsoLeq(r.date_gregorian, bound))

\* Lines 152-160: both bounds sit in one try block, so the first conversion
\* that raises leaves the block.
DateWarning(flt) ==
    \/ flt.start_j # <<>> /\ ConvertFails(flt.start_j)
    \/ flt.end_j # <<>> /\ ConvertFails(flt.end_j)

DateFilter(rows, flt) ==
    LET startOk == flt.start_j # <<>> /\ ~ConvertFails(flt.start_j)
        startBad == flt.start_j # <<>> /\ ConvertFails(flt.start_j)
        endOk == flt.end_j # <<>> /\ ~ConvertFails(flt.end_j)
        afterStart == IF startOk
                      THEN NotBefore(rows, jalali_to_gregorian(flt.start_j))
                      ELSE rows
    IN  IF startBad THEN rows
        ELSE IF endOk THEN NotAfter(afterStart, jalali_to_gregorian(flt.end_j))
        ELSE afterStart

\* Lines 163-164
CardFilter(rows, flt) ==
    IF flt.card_filter = <<>> THEN rows
    ELSE SelectSeq(rows, LAMBDA r : ContainsCI(FillNa(r.card), flt.card_filter))

\* Lines 167-168
SearchFilter(rows, flt) ==
    IF flt.search = <<>> THEN rows
    ELSE SelectSeq(rows, LAMBDA r : ContainsCI(FillNa(r.description), flt.search))

\* r goes before q in sort_values("date_gregorian", ascending=False); missing
\* values go last
Later(r, q) ==
    /\ r.date_gregorian # NaD
    /\ \/ q.date_gregorian = NaD
       \/ ~IsoLeq(r.date_gregorian, q.date_gregorian)

RECURSIVE InsertSorted(_, _)
InsertSorted(sorted, r) ==
    IF sorted = <<>> THEN <<r>>
    ELSE IF Later(r, Head(sorted)) THEN <<r>> \o sorted
    ELSE <<Head(sorted)>> \o InsertSorted(Tail(sorted), r)

RECURSIVE SortDesc(_)
SortDesc(rows) ==
    IF rows = <<>> THEN <<>>
    ELSE InsertSorted(SortDesc(SubSeq(rows, 1, Len(rows) - 1)), rows[Len(rows)])

\* Lines 149-172
Filtered(df, flt) == SortDesc(SearchFilter(CardFilter(DateFilter(df.rows, flt), flt), flt))

RECURSIVE SumAmount(_)
SumAmount(rows) == IF rows = <<>> THEN 0 ELSE Head(rows).amount + SumAmount(Tail(rows))

\* Line 177
total_spent(rows) == SumAmount(rows)

\* Line 184: nunique() does not count the missing value
day_count(rows) ==
    Cardinality({rows[i].date_gregorian : i \in 1..Len(rows)} \ {NaD})

\* int(x / n): truncation towards zero
Trunc(x, n) == IF x >= 0 THEN x \div n ELSE -((-x) \div n)

\* Lines 189-192
avg(rows) == IF rows = <<>> THEN 0 ELSE Trunc(SumAmount(rows), Len(rows))

\* filtered["card"].replace('', sentinel): only '' is replaced
CardKey(r) == IF r.card = <<>> THEN Sentinel ELSE r.card

\* Lines 196-200: groupby(...) drops the rows whose key is missing
\* (dropna=True is the default); the result maps each card to its sum.
card_summary(rows) ==
    LET keyed == SelectSeq(rows, LAMBDA r : CardKey(r) # NaN)
        keys == {CardKey(keyed[i]) : i \in 1..Len(keyed)}
    IN  [k \in keys |-> SumAmount(SelectSeq(keyed, LAMBDA r : CardKey(r) = k))]

\* ------------------------------------------------------------- inputs
GoodDay == <<1403, 5, 25>>
NewYear == <<1403, 1, 1>>
BadDay == <<1403, 13, 40>>

\* Submissions of the add form (number_input has min_value=0)
AddCases ==
    {[date_jalali |-> <<>>, amount |-> 4, description |-> <<"a">>, card |-> <<"B">>],
     [date_jalali |-> GoodDay, amount |-> 0, description |-> <<"a">>, card |-> <<"B">>],
     [date_jalali |-> BadDay, amount |-> 4, description |-> <<"a">>, card |-> <<"B">>],
     [date_jalali |-> GoodDay, amount |-> 5, description |-> <<"a", " ">>, card |-> <<" ">>]}

\* Values of the four filter widgets
FilterCases ==
    {NoFilter,
     [NoFilter EXCEPT !.start_j = BadDay, !.end_j = NewYear],
     [start_j |-> NewYear, end_j |-> BadDay, card_filter |-> <<"b">>, search |-> <<"A">>]}

NoUpload == [present |-> FALSE, columns |-> {}, rows |-> <<>>]

Cells(d, a, t, c) == [date_jalali |-> d, amount |-> a, description |-> t, card |-> c]

\* Uploaded CSV files as pd.read_csv returns them (an empty field is missing)
ImportCases ==
    {[present |-> TRUE, columns |-> {"date_jalali", "description", "card"},
      rows |-> <<Cells(GoodDay, Missing, <<"a">>, <<"B">>),
                 Cells(NewYear, Missing, <<"a">>, <<"B">>)>>],
     [present |-> TRUE, columns |-> {"date_jalali", "amount", "card"},
      rows |-> <<Cells(GoodDay, Num(2), NaN, <<"b">>),
                 Cells(BadDay, Num(2), NaN, <<"b">>)>>],
     [present |-> TRUE, columns |-> {"date_jalali", "amount"},
      rows |-> <<Cells(GoodDay, Num(2), NaN, NaN),
                 Cells(NewYear, NonNumeric, NaN, NaN)>>],
     [present |-> TRUE, columns |-> {"date_jalali", "amount", "card"},
      rows |-> <<Cells(NewYear, Num(-2), NaN, <<"B">>)>>],
     [present |-> TRUE, columns |-> {"date_jalali", "amount"}, rows |-> <<>>]}

FileRow(i, dj, dg, a, t, c) ==
    [id |-> i, date_jalali |-> dj, date_gregorian |-> dg, amount |-> a,
     description |-> t, card |-> c]

\* expenses.csv when the program starts: absent, or an older file without
\* the card column, with a column the program does not know and with an
\* amount that is no number.  Its id is a uuid4 of an earlier session.
InitFiles ==
    {NoFile,
     [state |-> "ok", columns |-> (Columns \ {"card"}) \cup {"note"},
      rows |-> <<FileRow(MaxId + 1, GoodDay, <<2024, 8, 15>>, NonNumeric, <<"a">>, <<>>)>>]}

VARIABLES
    file,       \* expenses.csv
    hasDf,      \* "df" in st.session_state
    sdf,        \* st.session_state.df
    uploaded,   \* the file held by the file_uploader widget
    filters,    \* the values of the four filter widgets
    nextId,     \* the next uuid4
    ioFailures, \* the writes of expenses.csv that have failed
    run         \* what the last script run was given and what it showed

vars == <<file, hasDf, sdf, uploaded, filters, nextId, ioFailures, run>>

\* ---------------------------------------------------------- script run
NoStep(session, f) ==
    [sdf |-> session, file |-> f, msg |-> "none", stopped |-> FALSE, made |-> 0,
     failed |-> 0]

NoRun ==
    [trigger |-> "none", crashed |-> FALSE, stopped |-> FALSE, form |-> NoForm,
     df |-> EmptyTable, addMsg |-> "none", midSdf |-> EmptyTable, midFile |-> NoFile,
     flt |-> NoFilter, warning |-> FALSE, filtered |-> <<>>, total_spent |-> 0,
     day_count |-> 0, avg |-> 0, card_summary |-> <<>>, batch |-> NoUpload,
     importMsg |-> "none", resetMsg |-> "none"]

\* One run of the script, lines 88-262.  `had` and `session` are the session
\* state at its start, `up` the uploader's file, `flt` the filter widgets,
\* `submitted` and `clicked` the two buttons.
Script(trigger, had, session, up, flt, submitted, form, clicked) ==
    IF ~had /\ ReadFails(file)
    THEN \* line 90 raises: nothing below it runs
         /\ run' = [NoRun EXCEPT !.trigger = trigger, !.crashed = TRUE]
         /\ hasDf' = FALSE
         /\ sdf' = EmptyTable
         /\ UNCHANGED <<file, nextId, ioFailures>>
    ELSE
      LET loaded == IF had THEN session ELSE read_data(file)
          df == loaded
          rows == Filtered(df, flt)
      IN  \E a \in (IF submitted
                    THEN AddOutcomes(loaded, file, form, nextId)
                    ELSE {NoStep(loaded, file)}) :
            IF a.stopped
            THEN /\ run' = [NoRun EXCEPT !.trigger = trigger, !.stopped = TRUE,
                                         !.form = form, !.df = df, !.addMsg = a.msg,
                                         !.midSdf = a.sdf, !.midFile = a.file,
                                         !.flt = flt]
                 /\ hasDf' = TRUE
                 /\ sdf' = a.sdf
                 /\ file' = a.file
                 /\ UNCHANGED <<nextId, ioFailures>>
            ELSE
              \E b \in (IF up.present
                        THEN ImportOutcomes(df, a.sdf, a.file, up, nextId + a.made)
                        ELSE {NoStep(a.sdf, a.file)}) :
              \E c \in (IF clicked
                        THEN ResetOutcomes(df, b.file)
                        ELSE {NoStep(b.sdf, b.file)}) :
                /\ nextId + a.made + b.made - 1 <= MaxId
                /\ ioFailures + a.failed + b.failed + c.failed <= MaxIoFailures
                /\ ioFailures' = ioFailures + a.failed + b.failed + c.failed
                /\ run' = [trigger |-> trigger, crashed |-> FALSE, stopped |-> FALSE,
                           form |-> form, df |-> df, addMsg |-> a.msg,
                           midSdf |-> a.sdf, midFile |-> a.file,
                           flt |-> flt, warning |-> DateWarning(flt),
                           filtered |-> rows,
                           total_spent |-> total_spent(rows),
                           day_count |-> day_count(rows),
                           avg |-> avg(rows),
                           card_summary |-> card_summary(rows),
                           batch |-> up,
                           importMsg |-> b.msg, resetMsg |-> c.msg]
                /\ hasDf' = TRUE
                /\ sdf' = c.sdf
                /\ file' = c.file
                /\ nextId' = nextId + a.made + b.made

\* The page of the last run shows the add form
PageHasForm == run.trigger # "none" /\ ~run.crashed

\* The page of the last run shows the widgets below the form
PageHasAll == PageHasForm /\ ~run.stopped

Init ==
    /\ file \in InitFiles
    /\ hasDf = FALSE
    /\ sdf = EmptyTable
    /\ uploaded = NoUpload
    /\ filters = NoFilter
    /\ nextId = 1
    /\ ioFailures = 0
    /\ run = NoRun

\* A browser (re)load: a new session with empty session state and widgets
NewSession ==
    /\ uploaded' = NoUpload
    /\ filters' = NoFilter
    /\ Script("session", FALSE, EmptyTable, NoUpload, NoFilter, FALSE, NoForm, FALSE)

\* The user submits the add form
SubmitAdd ==
    /\ PageHasForm
    /\ \E form \in AddCases :
        Script("add", hasDf, sdf, uploaded, filters, TRUE, form, FALSE)
    /\ UNCHANGED <<uploaded, filters>>

\* The user edits a filter widget
ChangeFilter ==
    /\ PageHasAll
    /\ \E flt \in FilterCases \ {filters} :
        /\ filters' = flt
        /\ Script("filter", hasDf, sdf, uploaded, flt, FALSE, NoForm, FALSE)
    /\ UNCHANGED uploaded

\* The user picks a CSV file in the uploader
UploadFile ==
    /\ PageHasAll
    /\ \E batch \in ImportCases \ {uploaded} :
        /\ uploaded' = batch
        /\ Script("upload", hasDf, sdf, batch, filters, FALSE, NoForm, FALSE)
    /\ UNCHANGED filters

\* The user removes the file from the uploader
RemoveUpload ==
    /\ PageHasAll
    /\ uploaded.present
    /\ uploaded' = NoUpload
    /\ Script("remove", hasDf, sdf, NoUpload, filters, FALSE, NoForm, FALSE)
    /\ UNCHANGED filters

\* The user clicks the reset button
ClickReset ==
    /\ PageHasAll
    /\ Script("reset", hasDf, sdf, uploaded, filters, FALSE, NoForm, TRUE)
    /\ UNCHANGED <<uploaded, filters>>

Next ==
    \/ NewSession
    \/ SubmitAdd
    \/ ChangeFilter
    \/ UploadFile
    \/ RemoveUpload
    \/ ClickReset

Spec == Init /\ [][Next]_vars

\* ------------------------------------------------------------ properties
\* The last run reached the end of the script
RunFull == run.trigger # "none" /\ ~run.crashed /\ ~run.stopped

RowSet(t) == {t.rows[i] : i \in 1..Len(t.rows)}

ImportErrors == {"error_column", "error_row"}

\* The uploaded batch lacks a required column or holds a row whose date does
\* not convert
BatchInvalid(batch) ==
    \/ ~({"date_jalali", "amount"} \subseteq batch.columns)
    \/ \E i \in 1..Len(batch.rows) : ~ValidJalali(batch.rows[i].date_jalali)

\* C1: an import whose batch lacks a required column or holds a row that
\* fails validation reports an error, appends no row of the batch to the
\* session table and does not rewrite the file: table and file are what they
\* were before the import.
C1_ImportAllOrNothing ==
    (RunFull /\ uploaded.present) =>
        /\ BatchInvalid(uploaded) => run.importMsg \in ImportErrors
        /\ (run.importMsg \in ImportErrors /\ run.resetMsg = "none") =>
                (sdf = run.midSdf /\ file = run.midFile)

\* A two-row batch whose first row is valid and whose second row has a date
\* that does not convert was refused, with a non-empty table left as it was.
C1_Witness ==
    /\ RunFull
    /\ uploaded.present
    /\ {"date_jalali", "amount"} \subseteq uploaded.columns
    /\ Len(uploaded.rows) = 2
    /\ ValidJalali(uploaded.rows[1].date_jalali)
    /\ ~ValidJalali(uploaded.rows[2].date_jalali)
    /\ run.importMsg = "error_row"
    /\ run.midSdf.rows # <<>>
    /\ sdf = run.midSdf

\* C2: a record that is in the session table after the add of a run is
\* still in the session table, unchanged, at the end of the run, unless the
\* run reset the table.
C2_NoRecordLost ==
    (run.trigger # "none" /\ ~run.crashed /\ run.resetMsg = "none") =>
        RowSet(run.midSdf) \subseteq RowSet(sdf)

\* C3: when the save of an add fails, the new record is appended to the
\* session table and the file keeps the content it had before the add.
C3_SaveFailureKeepsRecordAndFile ==
    [][run'.addMsg = "error_io" =>
          /\ Len(run'.midSdf.rows) = Len(sdf.rows) + 1
          /\ SubSeq(run'.midSdf.rows, 1, Len(sdf.rows)) = sdf.rows
          /\ run'.midSdf.rows[Len(sdf.rows) + 1].amount = run'.form.amount
          /\ run'.midFile = file]_vars

\* C4: an add with an empty date, with an amount <= 0, or with the date
\* 1403-13-40 is refused with its message, and a refused add leaves the
\* session table and the file as they were.
C4_RejectedAddChangesNothing ==
    [][run'.trigger = "add" =>
          /\ run'.form.date_jalali = <<>> => run'.addMsg = "warn_date"
          /\ (run'.form.date_jalali # <<>> /\ run'.form.amount <= 0) =>
                run'.addMsg = "warn_amount"
          /\ (run'.form.date_jalali = <<1403, 13, 40>> /\ run'.form.amount > 0) =>
                run'.addMsg = "error_date"
          /\ run'.addMsg \in {"warn_date", "warn_amount", "error_date"} =>
                (run'.midSdf = sdf /\ run'.midFile = file)]_vars

\* An add with the date 1403-13-40 was refused on a non-empty table.
C4_Witness ==
    /\ run.trigger = "add"
    /\ run.form.date_jalali = <<1403, 13, 40>>
    /\ run.addMsg = "error_date"
    /\ run.midSdf.rows # <<>>
    /\ run.midSdf = run.df

SixColumns == {"id", "date_jalali", "date_gregorian", "amount", "description", "card"}

EmptyCsv == [state |-> "ok", columns |-> SixColumns, rows |-> <<>>]

C6_EachBoundFailsAlone ==
    RunFull =>
        LET flt == run.flt
            shown == {run.filtered[i] : i \in 1..Len(run.filtered)}
        IN  /\ (flt.start_j # <<>> /\ ~ValidJalali(flt.start_j)) => run.warning
            /\ (flt.end_j # <<>> /\ ~ValidJalali(flt.end_j)) => run.warning
            /\ (flt.start_j # <<>> /\ ValidJalali(flt.start_j)) =>
                  \A r \in shown : IsoLeq(ToGregorian(flt.start_j), r.date_gregorian)
            /\ (flt.end_j # <<>> /\ ValidJalali(flt.end_j)) =>
                  \A r \in shown : IsoLeq(r.date_gregorian, ToGregorian(flt.end_j))
            /\ flt.card_filter # <<>> =>
                  \A r \in shown : ContainsCI(FillNa(r.card), flt.card_filter)
            /\ flt.search # <<>> =>
                  \A r \in shown : ContainsCI(FillNa(r.description), flt.search)

RECURSIVE SumOver(_, _)
SumOver(fn, keys) ==
    IF keys = {} THEN 0
    ELSE LET k == CHOOSE x \in keys : TRUE
         IN  fn[k] + SumOver(fn, keys \ {k})

\* C7: the per-card totals add up to the total of the rows shown, and the
\* rows whose card is empty or missing are counted under the sentinel label.
C7_CardTotalsAddUp ==
    (RunFull /\ run.filtered # <<>>) =>
        /\ run.total_spent = SumAmount(run.filtered)
        /\ SumOver(run.card_summary, DOMAIN run.card_summary) = run.total_spent
        /\ (\E i \in 1..Len(run.filtered) : run.filtered[i].card \in {<<>>, NaN}) =>
                Sentinel \in DOMAIN run.card_summary

\* The uploaded batch has both required columns, dates that convert, and an
\* amount that is no number in some row
HasNonNumericAmount(batch) ==
    /\ {"date_jalali", "amount"} \subseteq batch.columns
    /\ \A i \in 1..Len(batch.rows) : ValidJalali(batch.rows[i].date_jalali)
    /\ \A i \in 1..Len(batch.rows) : batch.rows[i].amount.k \in {"num", "text"}
    /\ \E i \in 1..Len(batch.rows) : batch.rows[i].amount.k = "text"

\* C8: an import whose rows all have dates that convert and where some row
\* has an amount that is no number is accepted, and that row is appended
\* with amount 0.
C8_NonNumericAmountIsZero ==
    (RunFull /\ uploaded.present /\ HasNonNumericAmount(uploaded)) =>
        /\ run.importMsg \in {"success", "error_io"}
        /\ run.resetMsg = "none" =>
              \A i \in 1..Len(uploaded.rows) :
                  LET k == Len(sdf.rows) - Len(uploaded.rows) + i
                  IN  /\ k >= 1
                      /\ sdf.rows[k].amount = ToNumericFillna(uploaded.rows[i].amount)

\* C9: every amount in the session table is a non-negative integer.
C9_AmountsNonNegative ==
    \A i \in 1..Len(sdf.rows) : sdf.rows[i].amount \in Nat

\* C10: a successful add of amount a on an empty table, with no filter set
\* and no file in the uploader, leaves one record with amount a and the
\* Gregorian date of the local date (1403-05-25 is 2024-08-15), and the
\* metrics of that run show the total a and one day.
C10_AddThenMetrics ==
    (/\ run.trigger = "add"
     /\ run.addMsg = "success"
     /\ run.df.rows = <<>>
     /\ run.flt = NoFilter
     /\ ~uploaded.present
     /\ run.form.date_jalali = <<1403, 5, 25>>) =>
        /\ Len(sdf.rows) = 1
        /\ sdf.rows[1].amount = run.form.amount
        /\ sdf.rows[1].date_gregorian = <<2024, 8, 15>>
        /\ run.total_spent = run.form.amount
        /\ run.day_count = 1

=============================================================================
